---- MODULE Spec2Model ----
\* A model of the useRefWithReset composable (src/src/useRefWithReset.ts) and of
\* its clone helper (src/unnamed/part_000).
\*
\* Contents are primitives or plain objects; a caller's object may also hold a
\* function, which no clone accepts. Objects live in a heap of cells, so
\* that object identity, sharing, shallow freezing and the reactive proxy that a
\* ref puts around an object are all visible. A reference carries the flag px:
\* TRUE when it is the reactive proxy of the object, FALSE when it is the raw
\* object itself.
EXTENDS Integers, Sequences, FiniteSets, TLC

\* Primitive contents are the numbers 1..MaxPrim.
MaxPrim == 2

Prim == 1..MaxPrim

VARIABLES
    st,         \* the containers and the objects around them, see below
    opts,       \* the options the tracker was constructed with
    pending,    \* TRUE while the watcher's job is queued and not yet flushed
    lastOp,     \* the operation that has just ended, "idle" once the caller went on
    threw       \* TRUE when that operation raised

heap == st.heap          \* Seq of cells [keys, vals, frozen]: every live object
value == st.value        \* what value.value reads
original == st.original  \* what original.value reads
source == st.source      \* the content of the watched source (NoVal without one)
oldValue == st.oldValue  \* the value the watcher observed last
arg == st.arg            \* the argument of the operation that has just ended

vars == <<st, opts, pending, lastOp, threw>>

-----------------------------------------------------------------------------
\* Values

NoVal == [t |-> "none", v |-> 0, px |-> FALSE]
\* The identity of an object that is no longer the source's content.
StaleObj == [t |-> "stale", v |-> 0, px |-> FALSE]
PrimV(p) == [t |-> "prim", v |-> p, px |-> FALSE]
RefV(a, isProxy) == [t |-> "ref", v |-> a, px |-> isProxy]
\* A function, as in { f: () => 1 }.
FnV == [t |-> "fn", v |-> 0, px |-> FALSE]

IsObj(v) == v.t = "ref"

Cell(keys, vals, frozen) == [keys |-> keys, vals |-> vals, frozen |-> frozen]

\* The position of key k among the keys of a cell, 0 when it has no such key.
KeyIndex(c, k) ==
    IF \E i \in 1..Len(c.keys) : c.keys[i] = k
    THEN CHOOSE i \in 1..Len(c.keys) : c.keys[i] = k
    ELSE 0

\* The object literals a caller writes, as trees: a number, or keys with
\* sub-trees in the order written.
TPrim(p) == [t |-> "prim", p |-> p, keys |-> <<>>, kids |-> <<>>]
TObj(keys, kids) == [t |-> "obj", p |-> 0, keys |-> keys, kids |-> kids]
TFn == [t |-> "fn", p |-> 0, keys |-> <<>>, kids |-> <<>>]

ObjLiterals ==
    { TObj(<<"a", "b">>, <<TPrim(1), TPrim(2)>>),
      TObj(<<"b", "a">>, <<TPrim(2), TPrim(1)>>),
      TObj(<<"n">>, <<TObj(<<"a">>, <<TPrim(1)>>)>>) }

Literals == { TPrim(p) : p \in Prim } \cup ObjLiterals

\* An object that cannot be cloned: one of its properties is a function.
FnLiteral == TObj(<<"f">>, <<TFn>>)

\* Allocate a literal in the heap: the caller's new object.
RECURSIVE Alloc(_, _), AllocKids(_, _, _)
AllocKids(h, kids, i) ==
    IF i > Len(kids) THEN [heap |-> h, vals |-> <<>>]
    ELSE LET first == Alloc(h, kids[i])
             rest == AllocKids(first.heap, kids, i + 1)
         IN [heap |-> rest.heap, vals |-> <<first.val>> \o rest.vals]
Alloc(h, tree) ==
    IF tree.t = "prim" THEN [heap |-> h, val |-> PrimV(tree.p)]
    ELSE IF tree.t = "fn" THEN [heap |-> h, val |-> FnV]
    ELSE LET r == AllocKids(h, tree.kids, 1)
             hp == Append(r.heap, Cell(tree.keys, r.vals, FALSE))
         IN [heap |-> hp, val |-> RefV(Len(hp), FALSE)]

\* The content behind a value, as a tree with the keys in insertion order
\* (identity, proxies and freezing forgotten).
RECURSIVE TreeOf(_, _)
TreeOf(h, v) ==
    IF IsObj(v)
    THEN TObj(h[v.v].keys, [i \in 1..Len(h[v.v].vals) |-> TreeOf(h, h[v.v].vals[i])])
    ELSE IF v.t = "fn" THEN TFn
    ELSE TPrim(v.v)

\* Structural equality of two contents, as the tests' toEqual takes it: the
\* same keys with structurally equal values, in whatever order.
RECURSIVE DeepEqual(_, _)
DeepEqual(x, y) ==
    IF x.t = "obj" /\ y.t = "obj"
    THEN /\ {x.keys[i] : i \in 1..Len(x.keys)} = {y.keys[i] : i \in 1..Len(y.keys)}
         /\ \A i \in 1..Len(x.keys) : \A j \in 1..Len(y.keys) :
                x.keys[i] = y.keys[j] => DeepEqual(x.kids[i], y.kids[j])
    ELSE x = y

IsFrozen(h, v) == IsObj(v) /\ h[v.v].frozen

\* The objects reachable from a value.
RECURSIVE Reach(_, _)
Reach(h, v) ==
    IF IsObj(v)
    THEN {v.v} \cup UNION { Reach(h, h[v.v].vals[i]) : i \in 1..Len(h[v.v].vals) }
    ELSE {}

-----------------------------------------------------------------------------
\* The host's primitives

\* vue toRaw: the object behind a reactive proxy; anything else is returned as is.
toRaw(v) == IF IsObj(v) THEN RefV(v.v, FALSE) ELSE v

\* vue ref: what reading .value gives after v was written. An extensible object
\* is wrapped in its reactive proxy; a frozen one and a primitive are kept as is.
toReactive(h, v) ==
    IF IsObj(v) /\ ~h[v.v].frozen THEN RefV(v.v, TRUE) ELSE v

\* What structuredClone accepts: not a proxy, not a function, and no function
\* anywhere below.
RECURSIVE HasFn(_, _)
HasFn(h, v) ==
    IF IsObj(v) THEN \E i \in 1..Len(h[v.v].vals) : HasFn(h, h[v.v].vals[i])
    ELSE v.t = "fn"

Cloneable(h, v) == ~(IsObj(v) /\ v.px) /\ ~HasFn(h, v)

\* structuredClone: a deep copy in fresh cells, none of them frozen. A proxy or
\* a function is not cloneable: the call raises DataCloneError.
RECURSIVE CopyObj(_, _), CopyVals(_, _, _)
CopyVals(h, vals, i) ==
    IF i > Len(vals) THEN [heap |-> h, vals |-> <<>>]
    ELSE LET first == IF IsObj(vals[i])
                      THEN CopyObj(h, vals[i].v)
                      ELSE [heap |-> h, val |-> vals[i]]
             rest == CopyVals(first.heap, vals, i + 1)
         IN [heap |-> rest.heap, vals |-> <<first.val>> \o rest.vals]
CopyObj(h, a) ==
    LET r == CopyVals(h, h[a].vals, 1)
        hp == Append(r.heap, Cell(h[a].keys, r.vals, FALSE))
    IN [heap |-> hp, val |-> RefV(Len(hp), FALSE)]

structuredClone(h, v) ==
    IF ~Cloneable(h, v) THEN [ok |-> FALSE, heap |-> h, val |-> v]
    ELSE IF IsObj(v)
         THEN LET c == CopyObj(h, v.v) IN [ok |-> TRUE, heap |-> c.heap, val |-> c.val]
         ELSE [ok |-> TRUE, heap |-> h, val |-> v]

\* Object.freeze: shallow, the cells below stay as they are.
ObjectFreeze(h, v) ==
    IF IsObj(v) THEN [h EXCEPT ![v.v].frozen = TRUE] ELSE h

\* JSON.stringify: the keys in insertion order, a property whose value is a
\* function left out.
RECURSIVE Stringify(_, _), StringifyFields(_, _, _, _)
StringifyFields(h, c, i, sep) ==
    IF i > Len(c.keys) THEN ""
    ELSE IF c.vals[i].t = "fn" THEN StringifyFields(h, c, i + 1, sep)
    ELSE sep \o "\"" \o c.keys[i] \o "\":" \o Stringify(h, c.vals[i])
         \o StringifyFields(h, c, i + 1, ",")
Stringify(h, v) ==
    IF IsObj(v) THEN "{" \o StringifyFields(h, h[v.v], 1, "") \o "}"
    ELSE IF v.t = "fn" THEN "undefined"
    ELSE ToString(v.v)

\* @vueuse toValue: a getter is called, a ref is read, a plain value is itself.
\* Reading a ref, or a getter over reactive state such as () => props.config,
\* gives the reactive proxy of an object.
toValue(form, v) ==
    IF form \in {"ref", "getter"} /\ IsObj(v) THEN RefV(v.v, TRUE) ELSE v

-----------------------------------------------------------------------------
\* src/unnamed/part_000

\* A copy of the top level only, as a spread would make: the objects below
\* stay shared with the input.
cloneShallow(h, v) ==
    IF IsObj(v)
    THEN [ok |-> TRUE, heap |-> Append(h, Cell(h[v.v].keys, h[v.v].vals, FALSE)),
          val |-> RefV(Len(h) + 1, FALSE)]
    ELSE [ok |-> TRUE, heap |-> h, val |-> v]

clone(h, v) == structuredClone(h, toRaw(v))

\* src/src/useRefWithReset.ts

\* The options object a caller writes: each flag given or left out. Without a
\* watchSource the two flags of the watcher are left out.
Given == {"omitted", "true", "false"}

OptionsGiven ==
    { g \in [watchSource : BOOLEAN, syncOriginalOnSourceChange : Given,
             deepWatch : Given, freezeOriginal : Given] :
        ~g.watchSource => (g.syncOriginalOnSourceChange = "omitted" /\ g.deepWatch = "omitted") }

\* A destructured flag with its default, lines 90-95.
WithDefault(x, d) == IF x = "omitted" THEN d ELSE x = "true"

Destructure(g) ==
    [watch |-> g.watchSource,
     syncOriginalOnSourceChange |-> WithDefault(g.syncOriginalOnSourceChange, TRUE),
     deep |-> WithDefault(g.deepWatch, FALSE),
     freeze |-> WithDefault(g.freezeOriginal, FALSE)]

\* The options after the destructuring.
Options == { Destructure(g) : g \in OptionsGiven }

\* The contents given to the watched source.
SourceLiterals ==
    { l \in Literals : l.t = "prim" \/ l.keys = <<"n">> } \cup {FnLiteral}

\* Live objects are renumbered in the order value, original, source, arg reach
\* them, and unreachable ones are collected: a state is its object graph, not
\* the addresses the allocator happened to hand out.
RECURSIVE Order(_, _, _)
Order(h, vs, seen) ==
    IF vs = <<>> THEN seen
    ELSE LET v == Head(vs) IN
         IF IsObj(v) /\ ~(\E i \in 1..Len(seen) : seen[i] = v.v)
         THEN Order(h, h[v.v].vals \o Tail(vs), Append(seen, v.v))
         ELSE Order(h, Tail(vs), seen)

Normalize(h, val, orig, src, old, a) ==
    LET ord == Order(h, <<val, orig, src, a>>, <<>>)
        Pos(x) == CHOOSE i \in 1..Len(ord) : ord[i] = x
        Re(v) == IF IsObj(v) THEN [v EXCEPT !.v = Pos(v.v)] ELSE v
    IN [heap |-> [i \in 1..Len(ord) |->
                    [h[ord[i]] EXCEPT !.vals = [j \in 1..Len(@) |-> Re(@[j])]]],
        value |-> Re(val), original |-> Re(orig), source |-> Re(src),
        oldValue |-> Re(old), arg |-> Re(a)]

\* An operation that returns: its effect on the containers and their objects.
Returns(op, h, val, orig, src, old, a) ==
    /\ st' = Normalize(h, val, orig, src, old, a)
    /\ lastOp' = op
    /\ threw' = FALSE

\* An operation that raises: the exception reaches the caller and nothing the
\* operation had not yet written is changed.
Raises(op) ==
    /\ lastOp' = op
    /\ threw' = TRUE
    /\ UNCHANGED st

\* A call that raises on its argument: nothing is written, and the caller still
\* holds the object it passed.
RaisesOn(op, h, a) ==
    /\ lastOp' = op
    /\ threw' = TRUE
    /\ st' = Normalize(h, value, original, source, oldValue, a)

\* An assignment obj.a = p, or obj.n.a = p when nested, through the reference v.
\* Assigning to a property of a frozen object raises TypeError in module code
\* and changes nothing.
Target(h, v, nested) ==
    IF nested THEN h[v.v].vals[KeyIndex(h[v.v], "n")].v ELSE v.v

CanAssign(h, v, nested) ==
    /\ IsObj(v)
    /\ KeyIndex(h[v.v], IF nested THEN "n" ELSE "a") > 0

FieldA(h, v, nested) ==
    LET c == h[Target(h, v, nested)] IN c.vals[KeyIndex(c, "a")]

Assign(h, v, nested, p) ==
    LET t == Target(h, v, nested) IN
    IF h[t].frozen THEN [ok |-> FALSE, heap |-> h]
    ELSE [ok |-> TRUE,
          heap |-> [h EXCEPT ![t].vals[KeyIndex(h[t], "a")] = PrimV(p)]]

\* What the watcher keeps of the value it observed, for the comparison its job
\* makes at the next flush. A deep watcher runs its callback without comparing
\* (line 144), and the callback does not take the old value (line 138): for a
\* deep watcher nothing of it is kept.
Observed(o, v) == IF o.deep THEN NoVal ELSE v

\* useRefWithReset, lines 97-99: the two containers after construction.
Construct(o, form, V) ==
    LET al == Alloc(<<>>, V)
        _initial == toValue(form, al.val)
        c1 == clone(al.heap, _initial)
        orig == toReactive(c1.heap, c1.val)
        c2 == clone(c1.heap, _initial)
        val == toReactive(c2.heap, c2.val)
    IN [heap |-> c2.heap, value |-> val, original |-> orig, arg |-> _initial]

InitialForms == {"plain", "getter", "ref"}

\* A construction that queues the watcher's job at once, as a watcher created
\* with immediate would.
InitImmediate ==
    \E o \in Options, form \in InitialForms, V \in Literals, W \in SourceLiterals :
        LET k == Construct(o, form, V)
            src == IF o.watch THEN Alloc(k.heap, W) ELSE [heap |-> k.heap, val |-> NoVal]
        IN /\ opts = o
           /\ st = Normalize(src.heap, k.value, k.original, src.val,
                             Observed(o, toValue("ref", src.val)), k.arg)
           /\ pending = o.watch
           /\ lastOp = "construct"
           /\ threw = FALSE

Init ==
    \E o \in Options, form \in InitialForms, V \in Literals, W \in SourceLiterals :
        LET k == Construct(o, form, V)
            src == IF o.watch THEN Alloc(k.heap, W) ELSE [heap |-> k.heap, val |-> NoVal]
        IN /\ opts = o
           /\ st = Normalize(src.heap, k.value, k.original, src.val,
                             Observed(o, toValue("ref", src.val)), k.arg)
           /\ pending = FALSE
           /\ lastOp = "construct"
           /\ threw = FALSE

\* The two contents compared as references.
isModifiedByIdentity == toRaw(value) # toRaw(original)

\* value's content compared with the serialization of the original ref itself.
isModifiedOfRef ==
    Stringify(heap, toRaw(value)) # "{\"_value\":" \o Stringify(heap, toRaw(original)) \o "}"

\* isModified, lines 131-133.
isModified ==
    Stringify(heap, toRaw(value)) # Stringify(heap, toRaw(original))

\* reset that hands value the very object original holds.
resetByReference ==
    /\ lastOp = "idle"
    /\ Returns("reset", heap, original, original, source, oldValue, NoVal)
    /\ UNCHANGED <<opts, pending>>

\* reset, lines 104-106.
reset ==
    /\ lastOp = "idle"
    /\ LET c == structuredClone(heap, original) IN
       IF c.ok
       THEN Returns("reset", c.heap, toReactive(c.heap, c.val), original, source,
                    oldValue, NoVal)
       ELSE Raises("reset")
    /\ UNCHANGED <<opts, pending>>

\* An argument of resetTo or set: a literal the caller just wrote, passed as it
\* is or, for an object, as its reactive proxy.
ArgForms == {"plain", "reactive"}
ArgLiterals == Literals \cup {FnLiteral}
\* The object passed as a reactive proxy, reactive({ a: 1, b: 2 }).
ReactiveLiterals == { TObj(<<"a", "b">>, <<TPrim(1), TPrim(2)>>) }
PassArg(h, X, form) ==
    LET al == Alloc(h, X)
    IN [heap |-> al.heap, val |-> IF form = "reactive" THEN toValue("ref", al.val) ELSE al.val]

\* resetTo that stops after writing original.
resetToOriginalOnly(X, form) ==
    /\ lastOp = "idle"
    /\ form = "reactive" => X \in ReactiveLiterals
    /\ LET x == PassArg(heap, X, form)
           c1 == structuredClone(x.heap, x.val)
           h1 == IF opts.freeze THEN ObjectFreeze(c1.heap, c1.val) ELSE c1.heap
       IN IF c1.ok
          THEN Returns("resetTo", h1, value, toReactive(h1, c1.val), source, oldValue, x.val)
          ELSE RaisesOn("resetTo", x.heap, x.val)
    /\ UNCHANGED <<opts, pending>>

\* resetTo, lines 113-116.
resetTo(X, form) ==
    /\ lastOp = "idle"
    /\ form = "reactive" => X \in ReactiveLiterals
    /\ LET x == PassArg(heap, X, form)
           c1 == structuredClone(x.heap, x.val)
           h1 == IF opts.freeze THEN ObjectFreeze(c1.heap, c1.val) ELSE c1.heap
           orig == toReactive(h1, c1.val)
           c2 == clone(h1, orig)
           c3 == structuredClone(c2.heap, c2.val)
       IN IF c1.ok
          THEN Returns("resetTo", c3.heap, toReactive(c3.heap, c3.val), orig, source,
                       oldValue, x.val)
          ELSE RaisesOn("resetTo", x.heap, x.val)
    /\ UNCHANGED <<opts, pending>>

\* set that moves the baseline along with the value.
setAlsoOriginal(Y, form) ==
    /\ lastOp = "idle"
    /\ form = "reactive" => Y \in ReactiveLiterals
    /\ LET y == PassArg(heap, Y, form)
           c1 == structuredClone(y.heap, y.val)
           c2 == structuredClone(c1.heap, y.val)
       IN IF c1.ok
          THEN Returns("set", c2.heap, toReactive(c2.heap, c1.val),
                       toReactive(c2.heap, c2.val), source, oldValue, y.val)
          ELSE RaisesOn("set", y.heap, y.val)
    /\ UNCHANGED <<opts, pending>>

\* set, lines 123-125.
set(Y, form) ==
    /\ lastOp = "idle"
    /\ form = "reactive" => Y \in ReactiveLiterals
    /\ LET y == PassArg(heap, Y, form)
           c == structuredClone(y.heap, y.val)
       IN IF c.ok
          THEN Returns("set", c.heap, toReactive(c.heap, c.val), original, source,
                       oldValue, y.val)
          ELSE RaisesOn("set", y.heap, y.val)
    /\ UNCHANGED <<opts, pending>>

\* In-place assignments by the user through value.value and original.value.
mutateValue(nested, p) ==
    /\ lastOp = "idle"
    /\ CanAssign(heap, value, nested)
    /\ FieldA(heap, value, nested) # PrimV(p)
    /\ LET r == Assign(heap, value, nested, p) IN
       IF r.ok
       THEN Returns("mutate", r.heap, value, original, source, oldValue, NoVal)
       ELSE Raises("mutate")
    /\ UNCHANGED <<opts, pending>>

mutateOriginal(p) ==
    /\ lastOp = "idle"
    /\ CanAssign(heap, original, FALSE)
    /\ FieldA(heap, original, FALSE) # PrimV(p)
    /\ LET r == Assign(heap, original, FALSE, p) IN
       IF r.ok
       THEN Returns("mutate", r.heap, value, original, source, oldValue, NoVal)
       ELSE Raises("mutate")
    /\ UNCHANGED <<opts, pending>>

\* The caller assigns into the object it passed in last.
callerMutate(nested, p) ==
    /\ lastOp \in {"construct", "resetTo", "set", "callerMutate"}
    /\ CanAssign(heap, arg, nested)
    /\ FieldA(heap, arg, nested) # PrimV(p)
    /\ LET r == Assign(heap, arg, nested, p) IN
       Returns("callerMutate", r.heap, value, original, source, oldValue, arg)
    /\ UNCHANGED <<opts, pending>>

\* The caller goes on after the operation: it has seen the outcome, handled
\* the exception if one was raised, and lets go of the argument it passed.
resume ==
    /\ lastOp # "idle"
    /\ st' = Normalize(heap, value, original, source, oldValue, NoVal)
    /\ lastOp' = "idle"
    /\ threw' = FALSE
    /\ UNCHANGED <<opts, pending>>

\* The watched source, a ref: source.value = W. The ref triggers its watchers
\* when the new content is another primitive or another object; the watcher
\* queues its job, once, for the scheduler's next flush (lines 136-145: the
\* watcher is created with the default flush).
sourceAssign(W) ==
    /\ lastOp = "idle"
    /\ opts.watch
    /\ LET al == Alloc(heap, W) IN
       /\ al.val # source
       /\ Returns("source", al.heap, value, original, al.val,
                  IF IsObj(oldValue) THEN StaleObj ELSE oldValue, NoVal)
    /\ pending' = TRUE
    /\ UNCHANGED opts

\* source.value.a = p, or source.value.n.a = p: the watcher has subscribed to
\* the fields of the content only when it watches deeply (line 144).
sourceMutate(nested, p) ==
    /\ lastOp = "idle"
    /\ opts.watch
    /\ CanAssign(heap, source, nested)
    /\ FieldA(heap, source, nested) # PrimV(p)
    /\ LET r == Assign(heap, source, nested, p) IN
       Returns("source", r.heap, value, original, source, oldValue, NoVal)
    /\ pending' = (pending \/ opts.deep)
    /\ UNCHANGED opts

\* A callback that raises. Vue hands the exception to its error handler, which
\* rethrows it out of the flush in a development build and logs it in a
\* production build; the watcher has recorded the observed value in the second
\* case only.
ReactionRaises(newVal) ==
    /\ lastOp' = "reaction"
    /\ threw' = TRUE
    /\ \E recorded \in BOOLEAN :
          st' = [st EXCEPT !.oldValue = IF recorded THEN Observed(opts, newVal) ELSE @]

\* The callback without the write to original, and with that write made
\* whatever the option says.
watchCallbackNoSync(newVal) ==
    LET rawVal == toRaw(toValue("plain", newVal))
        c1 == structuredClone(heap, rawVal)
    IN IF ~c1.ok THEN ReactionRaises(newVal)
       ELSE Returns("reaction", c1.heap, toReactive(c1.heap, c1.val), original, source,
                    Observed(opts, newVal), NoVal)

watchCallbackAlwaysSync(newVal) ==
    LET rawVal == toRaw(toValue("plain", newVal))
        c1 == structuredClone(heap, rawVal)
        c2 == structuredClone(c1.heap, rawVal)
        h2 == IF opts.freeze THEN ObjectFreeze(c2.heap, c2.val) ELSE c2.heap
    IN IF ~c1.ok THEN ReactionRaises(newVal)
       ELSE Returns("reaction", h2, toReactive(c1.heap, c1.val), toReactive(h2, c2.val),
                    source, Observed(opts, newVal), NoVal)

\* The callback writing one and the same clone to value and to original.
watchCallbackOneClone(newVal) ==
    LET rawVal == toRaw(toValue("plain", newVal))
        c1 == structuredClone(heap, rawVal)
        h1 == IF opts.freeze /\ opts.syncOriginalOnSourceChange
              THEN ObjectFreeze(c1.heap, c1.val) ELSE c1.heap
        val == toReactive(h1, c1.val)
    IN IF ~c1.ok THEN ReactionRaises(newVal)
       ELSE Returns("reaction", h1, val,
                    IF opts.syncOriginalOnSourceChange THEN val ELSE original,
                    source, Observed(opts, newVal), NoVal)

\* The callback writing value from a spread of the observed object, which takes
\* what structuredClone refuses, before it clones for original.
watchCallbackSpreadValue(newVal) ==
    LET rawVal == toRaw(toValue("plain", newVal))
        s1 == cloneShallow(heap, rawVal)
        val == toReactive(s1.heap, s1.val)
        c2 == structuredClone(s1.heap, rawVal)
        h2 == IF opts.freeze THEN ObjectFreeze(c2.heap, c2.val) ELSE c2.heap
    IN IF ~opts.syncOriginalOnSourceChange
       THEN Returns("reaction", s1.heap, val, original, source,
                    Observed(opts, newVal), NoVal)
       ELSE IF c2.ok
       THEN Returns("reaction", h2, val, toReactive(h2, c2.val), source,
                    Observed(opts, newVal), NoVal)
       ELSE /\ lastOp' = "reaction"
            /\ threw' = TRUE
            /\ st' = Normalize(s1.heap, val, original, source, oldValue, NoVal)

\* The callback given to watch, lines 138-143.
watchCallback(newVal) ==
    LET rawVal == toRaw(toValue("plain", newVal))
        c1 == structuredClone(heap, rawVal)
        val == toReactive(c1.heap, c1.val)
        c2 == structuredClone(c1.heap, rawVal)
        h2 == IF opts.freeze THEN ObjectFreeze(c2.heap, c2.val) ELSE c2.heap
    IN IF ~c1.ok THEN ReactionRaises(newVal)
       ELSE IF opts.syncOriginalOnSourceChange
       THEN Returns("reaction", h2, val, toReactive(h2, c2.val), source,
                    Observed(opts, newVal), NoVal)
       ELSE Returns("reaction", c1.heap, val, original, source,
                    Observed(opts, newVal), NoVal)

\* A flush whose job stays queued.
flushLeavesPending ==
    /\ lastOp = "idle"
    /\ pending
    /\ pending' = TRUE
    /\ LET newValue == toValue("ref", source) IN
       IF opts.deep \/ newValue # oldValue
       THEN watchCallback(newValue)
       ELSE Returns("flush", heap, value, original, source, oldValue, NoVal)
    /\ UNCHANGED opts

\* The watcher's queued job, run by the scheduler's flush: the getter of line
\* 137 is read again and the callback runs when the watcher is deep or the
\* value is not the one observed last.
flush ==
    /\ lastOp = "idle"
    /\ pending
    /\ pending' = FALSE
    /\ LET newValue == toValue("ref", source) IN
       IF opts.deep \/ newValue # oldValue
       THEN watchCallback(newValue)
       ELSE Returns("flush", heap, value, original, source, oldValue, NoVal)
    /\ UNCHANGED opts

Next ==
    \/ reset
    \/ \E X \in ArgLiterals, form \in ArgForms : resetTo(X, form)
    \/ \E Y \in ArgLiterals, form \in ArgForms : set(Y, form)
    \/ \E nested \in BOOLEAN, p \in Prim : mutateValue(nested, p)
    \/ \E p \in Prim : mutateOriginal(p)
    \/ \E nested \in BOOLEAN, p \in Prim : callerMutate(nested, p)
    \/ resume
    \/ \E W \in SourceLiterals : sourceAssign(W)
    \/ \E nested \in BOOLEAN, p \in Prim : sourceMutate(nested, p)
    \/ flush

Spec == Init /\ [][Next]_vars

-----------------------------------------------------------------------------
\* Properties

\* The same content, key order included.
Same(v, w) == TreeOf(heap, v) = TreeOf(heap, w)

\* Structurally equal contents.
StructEq(v, w) == DeepEqual(TreeOf(heap, v), TreeOf(heap, w))

\* What a reader of original.value can tell about it.
OrigView(h, o) == [tree |-> TreeOf(h, o), frozen |-> IsFrozen(h, o), px |-> o.px]

\* The objects the caller owns: the argument it passed and the source's content.
CallerOwned == Reach(heap, arg) \cup Reach(heap, source)

\* The objects the tracker stores.
Stored == Reach(heap, value) \cup Reach(heap, original)

\* C1: reset() always returns and leaves value structurally equal to original,
\* with isModified false, for primitive and for plain-object contents.
C1_ResetRestores ==
    lastOp = "reset" => (~threw /\ StructEq(value, original) /\ ~isModified)

\* C2: right after construction from V, given plain, by a getter or by a ref,
\* value and original both hold V's content and isModified is false.
C2_Construction ==
    lastOp = "construct" =>
        (~threw /\ Same(value, arg) /\ Same(original, arg) /\ ~isModified)

C2_Witness ==
    lastOp = "construct" /\ IsObj(arg) /\ arg.px /\ Same(value, arg) /\ opts.watch

\* C3: after resetTo(X) has returned, from whatever state it was called in,
\* original and value both hold X's content and isModified is false.
C3_ResetTo ==
    (lastOp = "resetTo" /\ ~threw) =>
        (Same(original, arg) /\ Same(value, arg) /\ ~isModified)

C3_Witness ==
    lastOp = "resetTo" /\ ~threw /\ IsObj(arg) /\ pending /\ Same(value, arg)

\* C4: a set(Y) that returns leaves value holding Y's content and original as
\* it was; isModified is then the comparison of Y with that original.
C4_SetFrame ==
    [][(lastOp' = "set" /\ ~threw') =>
         /\ TreeOf(heap', value') = TreeOf(heap', arg')
         /\ OrigView(heap', original') = OrigView(heap, original)
         /\ isModified' = (Stringify(heap', toRaw(arg')) # Stringify(heap, toRaw(original)))]_vars

C4_Witness ==
    lastOp = "set" /\ ~threw /\ IsObj(arg) /\ IsObj(original) /\ isModified
    /\ Same(value, arg)

C6_ReactionSyncs ==
    (lastOp = "reaction" /\ ~threw /\ opts.syncOriginalOnSourceChange) =>
        (Same(value, source) /\ Same(original, source) /\ ~isModified)

C6_Witness ==
    lastOp = "reaction" /\ opts.syncOriginalOnSourceChange /\ IsObj(source)
    /\ Same(value, source) /\ Same(original, source)

\* C7: without syncOriginalOnSourceChange a reaction writes value only; reset,
\* set, the reactions and the caller's own objects never change original, which
\* leaves resetTo (and an assignment made directly into original.value); and
\* after a reaction to a content that differs from original isModified is true.
C7_ReactionKeepsOriginal ==
    [][~opts.syncOriginalOnSourceChange =>
         /\ (lastOp' = "reaction" /\ ~threw') =>
              /\ OrigView(heap', original') = OrigView(heap, original)
              /\ TreeOf(heap', value') = TreeOf(heap', source')
              /\ ~DeepEqual(TreeOf(heap', source'), TreeOf(heap', original')) => isModified'
         /\ OrigView(heap', original') # OrigView(heap, original) =>
              lastOp' \in {"resetTo", "mutate"}]_vars

C7_Witness ==
    lastOp = "reaction" /\ ~opts.syncOriginalOnSourceChange /\ isModified
    /\ Same(value, source)

\* C8: no object the tracker stores is an object of the caller's, or is below
\* one, and an assignment the caller makes into its own objects changes
\* neither value nor original.
C8_CloneIsolation ==
    /\ [](Stored \cap CallerOwned = {})
    /\ [][lastOp' \in {"callerMutate", "source"} =>
            /\ TreeOf(heap', value') = TreeOf(heap, value)
            /\ TreeOf(heap', original') = TreeOf(heap, original)]_vars

C8_Witness ==
    lastOp = "callerMutate" /\ CanAssign(heap, arg, TRUE) /\ IsObj(value)
    /\ ~Same(value, arg)

\* C9: with freezeOriginal, original's content is frozen in every state, so an
\* assignment to a property of it has no effect.
C9_OriginalFrozen ==
    (opts.freeze /\ IsObj(original)) => IsFrozen(heap, original)

\* C10, as claimed: each change of the source has its own reaction, so a change
\* never finds the reaction to an earlier one still waiting, and no flush goes
\* by without a reaction.
C10_OneReactionPerChange ==
    [][/\ (lastOp' = "source" /\ pending') => ~pending
       /\ lastOp' # "flush"]_vars

\* C10, amended: the reactions are deferred to the scheduler's flush and
\* coalesced. A job is queued by a change of the source only; a reaction runs
\* only for a queued job, empties the queue and writes the content the source
\* holds at that moment.
C10_CoalescedReaction ==
    [][/\ lastOp' = "reaction" =>
            /\ pending /\ ~pending'
            /\ ~threw' => TreeOf(heap', value') = TreeOf(heap', source')
       /\ (pending' /\ ~pending) => lastOp' = "source"]_vars

C10_Witness == lastOp = "flush" /\ ~opts.deep /\ ~Same(value, source)

\* The tracker was constructed with a watchSource and without a
\* syncOriginalOnSourceChange.
SyncOmitted ==
    opts \in { Destructure(g) :
                 g \in { x \in OptionsGiven :
                           x.watchSource /\ x.syncOriginalOnSourceChange = "omitted" } }

\* C11: with a watchSource and syncOriginalOnSourceChange left out, a reaction
\* leaves original holding the source's content W, and a reset() called while
\* original holds W returns with value structurally equal to W.
C11_DefaultSync ==
    [][SyncOmitted =>
         /\ (lastOp' = "reaction" /\ ~threw') =>
              TreeOf(heap', original') = TreeOf(heap', source')
         /\ (lastOp' = "reset" /\ Same(original, source)) =>
              (~threw' /\ DeepEqual(TreeOf(heap', value'), TreeOf(heap', source')))]_vars

\* C12: construction, reset, resetTo, set and the source reaction discard the
\* reactive wrapper before they clone, so one of them raises only when the
\* data it copies holds something no clone accepts.
C12_WritesUnwrap ==
    (lastOp \in {"construct", "reset", "resetTo", "set", "reaction"} /\ threw) =>
        HasFn(heap, IF lastOp = "reset" THEN original
                    ELSE IF lastOp = "reaction" THEN source ELSE arg)

\* C13: with freezeOriginal, no object of value's content is ever frozen, at
\* the top or below, whatever reset, resetTo, set or a reaction wrote last.
C13_ValueNeverFrozen ==
    opts.freeze => \A a \in Reach(heap, value) : ~heap[a].frozen

C13_Witness ==
    lastOp = "reset" /\ ~threw /\ opts.freeze /\ IsFrozen(heap, original)
    /\ IsObj(value) /\ Same(value, original)

\* C14: the contents of value and original share no object in any state, and
\* an in-place assignment changes the content of one of them only, so that one
\* made through value leaves original as it was.
C14_NoAlias ==
    /\ [](Reach(heap, value) \cap Reach(heap, original) = {})
    /\ [][lastOp' = "mutate" =>
            \/ TreeOf(heap', value') = TreeOf(heap, value)
            \/ OrigView(heap', original') = OrigView(heap, original)]_vars

C14_Witness ==
    lastOp = "mutate" /\ ~threw /\ isModified /\ IsObj(original)
    /\ ~Same(value, original)

\* C15: while a reaction is queued the user's calls act at once and leave it
\* queued, reset() among them, which returns with value structurally equal to
\* original; the reaction that then runs overwrites them with the content the
\* source holds at that moment.
C15_ReactionWins ==
    [][pending =>
         /\ lastOp' = "reset" =>
              /\ ~threw' /\ pending'
              /\ DeepEqual(TreeOf(heap', value'), TreeOf(heap, original))
         /\ (lastOp' = "set" /\ ~threw') =>
              (pending' /\ TreeOf(heap', value') = TreeOf(heap', arg'))
         /\ (lastOp' = "reaction" /\ ~threw') =>
              /\ TreeOf(heap', value') = TreeOf(heap', source')
              /\ opts.syncOriginalOnSourceChange =>
                   TreeOf(heap', original') = TreeOf(heap', source')]_vars

\* C16: construction reads nothing of the source and queues no reaction: value
\* and original hold the initial value, and afterwards their contents change
\* only by a call of the user or by the reaction to a queued change of the
\* source.
C16_SourceNotReadAtConstruction ==
    /\ [](lastOp = "construct" =>
            (~pending /\ Same(value, arg) /\ Same(original, arg)))
    /\ [][(\/ TreeOf(heap', value') # TreeOf(heap, value)
           \/ OrigView(heap', original') # OrigView(heap, original)) =>
            \/ lastOp' \in {"reset", "resetTo", "set", "mutate"}
            \/ lastOp' = "reaction" /\ pending]_vars

C16_Witness ==
    lastOp = "construct" /\ opts.watch /\ IsObj(source) /\ ~pending
    /\ ~StructEq(value, source)

\* C17: a set, a resetTo or a source reaction that raises leaves value and
\* original as they were, both of them.
C17_FailureChangesNothing ==
    [][(threw' /\ lastOp' \in {"set", "resetTo", "reaction"}) =>
         /\ TreeOf(heap', value') = TreeOf(heap, value)
         /\ IsFrozen(heap', value') = IsFrozen(heap, value)
         /\ OrigView(heap', original') = OrigView(heap, original)]_vars

C17_Witness ==
    lastOp = "reaction" /\ threw /\ opts.syncOriginalOnSourceChange
    /\ HasFn(heap, source) /\ ~Same(value, source) /\ ~Same(original, source)

====
